---- MODULE Spec2Model ----
(***************************************************************************)
(* The consolidation recommendation engine of elb-pruner (src/main.go):    *)
(* tiers of subnets, listener classification, greedy placement of each     *)
(* load balancer into a consolidated load balancer (LB), the security      *)
(* group ingress cache, and the final list of recommendations.             *)
(*                                                                         *)
(* Pointers are modelled as indexes: a *tier is its index in tiers.tiers   *)
(* (0 is nil), a *LB is its index in the list (albs, nlbs or elbs) it was  *)
(* appended to.  Go maps are functions with a finite domain; a map used as *)
(* a set (map[k]struct{}, map[string]bool with only true values) is a set. *)
(* A panic ends the run: status = "panicked".                              *)
(***************************************************************************)
EXTENDS Integers, Sequences, FiniteSets, TLC

VARIABLES
    universe,        \* the descriptors the caller's load balancers are drawn from
    elbs,            \* generateRecommendations: the load balancers processed so far, in order
    securityGroups,  \* tiers.securityGroups: GroupId -> IpPermissions (read only)
    tiersBySubnet,   \* tiers.tiersBySubnet: subnet -> *tier
    tiers,           \* tiers.tiers: the list of tiers
    ingressesBySg,   \* tiers.ingressesBySg: GroupId -> set of ingress CIDRs (cache)
    targetLB,        \* elbDrop: the last result of inspectListeners
    sameIngress,     \* the last call of hasSameIngress and what it returned
    status,          \* "running", "panicked", "returned" or "printed"
    result,          \* what generateRecommendations returned
    printed          \* printRecommendations: the counts and the saving it printed

vars == <<universe, elbs, securityGroups, tiersBySubnet, tiers, ingressesBySg,
          targetLB, sameIngress, status, result, printed>>

(***************************************************************************)
(* Bounds of the model.                                                    *)
(***************************************************************************)
MaxLBs == 4

MaxListeners == 2

MaxRanges == 1

MaxOrderLBs == 3

(***************************************************************************)
(* lbType                                                                  *)
(***************************************************************************)
ALB == "ALB"

NLB == "NLB"

ELB == "ELB"

LbTypes == {ALB, NLB, ELB}

\* A value that stands for "the function panicked".
Panic == "panic"

\* The empty Go map.
EmptyMap == [x \in {} |-> 0]

\* m[k] = v on a Go map.
MapPut(m, k, v) == [x \in (DOMAIN m) \cup {k} |-> IF x = k THEN v ELSE m[x]]

(***************************************************************************)
(* Subnet identifiers, in the order sort.Strings puts them.                *)
(***************************************************************************)
SubnetIds == <<"a", "b", "c">>

SubnetRank(s) == CHOOSE i \in 1..Len(SubnetIds) : SubnetIds[i] = s

RECURSIVE SortedSubnets(_)
SortedSubnets(S) ==
    IF S = {} THEN <<>>
    ELSE LET m == CHOOSE x \in S : \A y \in S : SubnetRank(x) <= SubnetRank(y)
         IN  <<m>> \o SortedSubnets(S \ {m})

\* tier.keys: the subnets of a tier, sorted.
keys(t) == SortedSubnets(t.subnets)

(***************************************************************************)
(* recommendation, tier, tiers                                             *)
(***************************************************************************)
newRecommendation ==
    [subnets  |-> <<>>,
     albs     |-> <<>>, albsBySg |-> EmptyMap,
     nlbs     |-> <<>>, nlbsBySg |-> EmptyMap,
     elbs     |-> <<>>, elbsBySg |-> EmptyMap]

\* The fields of a recommendation that elbDrop hands to addELBv2 for a type.
ListField(type) == CASE type = ALB -> "albs" [] type = NLB -> "nlbs" [] OTHER -> "elbs"

BySgField(type) == CASE type = ALB -> "albsBySg" [] type = NLB -> "nlbsBySg" [] OTHER -> "elbsBySg"

newTiers(sgs) ==
    [tiersBySubnet  |-> EmptyMap,
     tiers          |-> <<>>,
     securityGroups |-> sgs,
     ingressesBySg  |-> EmptyMap]

\* tiers.associate: tier.add(subnet), then tiersBySubnet[subnet] = tier.
associateIfAbsent(t, tier, subnet) ==
    IF subnet \in DOMAIN t.tiersBySubnet
    THEN [t EXCEPT !.tiers[tier].subnets = @ \cup {subnet}]
    ELSE [t EXCEPT !.tiers[tier].subnets = @ \cup {subnet},
                   !.tiersBySubnet = MapPut(@, subnet, tier)]

\* An association that takes the subnet out of the tier that had it.
associateMoving(t, tier, subnet) ==
    [t EXCEPT !.tiers = [i \in 1..Len(@) |->
                           IF i = tier THEN [@[i] EXCEPT !.subnets = @ \cup {subnet}]
                           ELSE [@[i] EXCEPT !.subnets = @ \ {subnet}]],
              !.tiersBySubnet = MapPut(@, subnet, tier)]

associate(t, tier, subnet) ==
    [t EXCEPT !.tiers[tier].subnets = @ \cup {subnet},
              !.tiersBySubnet = MapPut(@, subnet, tier)]

\* tiers.addTierFor: a fresh tier holding the subnet, appended to the list.
addTierFor(t, subnet) ==
    LET res   == [subnets |-> {}, recommendation |-> newRecommendation]
        added == [t EXCEPT !.tiers = Append(@, res)]
    IN  [t |-> associate(added, Len(added.tiers), subnet), tier |-> Len(added.tiers)]

\* tiers.find: the tier of the subnet, created when the subnet is unknown.
findAnyTier(t, subnet) ==
    IF t.tiers # <<>> THEN [t |-> associate(t, 1, subnet), tier |-> 1]
    ELSE addTierFor(t, subnet)

find(t, subnet) ==
    IF subnet \in DOMAIN t.tiersBySubnet
    THEN [t |-> t, tier |-> t.tiersBySubnet[subnet]]
    ELSE addTierFor(t, subnet)

RECURSIVE assignTierLoop(_, _, _, _)
assignTierLoop(t, subnets, i, cur) ==
    IF i > Len(subnets) THEN [t |-> t, tier |-> cur]
    ELSE IF cur # 0
         THEN assignTierLoop(associate(t, cur, subnets[i]), subnets, i + 1, cur)
         ELSE LET f == find(t, subnets[i])
              IN  assignTierLoop(f.t, subnets, i + 1, f.tier)

\* An assignTier that leaves the later subnets where they are.
assignTierOfFirstSubnetOnly(t, lb) == find(t, lb.Subnets[1])

\* assignTier: the tier of the first subnet; every later subnet is associated with it.
assignTier(t, lb) == assignTierLoop(t, lb.Subnets, 1, 0)

(***************************************************************************)
(* Security group ingress                                                  *)
(***************************************************************************)
RECURSIVE addIpRanges(_, _)
addIpRanges(res, ipRanges) ==
    IF ipRanges = <<>> THEN res
    ELSE addIpRanges(res \cup {Head(ipRanges)}, Tail(ipRanges))

RECURSIVE addPermissions(_, _)
addPermissions(res, permissions) ==
    IF permissions = <<>> THEN res
    ELSE addPermissions(addIpRanges(res, Head(permissions)), Tail(permissions))

\* A lookup that takes a missing security group for one that allows nothing.
findOrGetIngressOfMissingAsEmpty(t, sg) ==
    IF sg \in DOMAIN t.ingressesBySg
    THEN [t |-> t, res |-> t.ingressesBySg[sg], panic |-> FALSE]
    ELSE LET res == IF sg \in DOMAIN t.securityGroups
                    THEN addPermissions({}, t.securityGroups[sg]) ELSE {}
         IN  [t |-> [t EXCEPT !.ingressesBySg = MapPut(@, sg, res)],
              res |-> res, panic |-> FALSE]

\* A findOrGetIngress that caches the ranges of the first permission only.
findOrGetIngressCachingFirstPermission(t, sg) ==
    IF sg \in DOMAIN t.ingressesBySg
    THEN [t |-> t, res |-> t.ingressesBySg[sg], panic |-> FALSE]
    ELSE IF sg \notin DOMAIN t.securityGroups
    THEN [t |-> t, res |-> {}, panic |-> TRUE]
    ELSE LET res == addPermissions({}, t.securityGroups[sg])
             first == IF t.securityGroups[sg] = <<>> THEN {}
                      ELSE addPermissions({}, <<Head(t.securityGroups[sg])>>)
         IN  [t |-> [t EXCEPT !.ingressesBySg = MapPut(@, sg, first)],
              res |-> res, panic |-> FALSE]

\* tiers.findOrGetIngress: the cached set, or the set flattened from the group's
\* permissions and then cached.  A group missing from securityGroups is a nil
\* *ec2.SecurityGroup, whose IpPermissions cannot be read: a panic.
findOrGetIngress(t, sg) ==
    IF sg \in DOMAIN t.ingressesBySg
    THEN [t |-> t, res |-> t.ingressesBySg[sg], panic |-> FALSE]
    ELSE IF sg \notin DOMAIN t.securityGroups
    THEN [t |-> t, res |-> {}, panic |-> TRUE]
    ELSE LET res == addPermissions({}, t.securityGroups[sg])
         IN  [t |-> [t EXCEPT !.ingressesBySg = MapPut(@, sg, res)],
              res |-> res, panic |-> FALSE]

\* reflect.DeepEqual of two non-nil map[string]bool whose values are all true.
DeepEqualSubset(ingress1, ingress2) == ingress1 \subseteq ingress2

DeepEqual(ingress1, ingress2) == ingress1 = ingress2

\* tiers.hasSameIngress
hasSameIngress(t, sg1, sg2) ==
    LET i1 == findOrGetIngress(t, sg1)
        i2 == findOrGetIngress(i1.t, sg2)
    IN  IF i1.panic THEN [t |-> i1.t, res |-> FALSE, panic |-> TRUE]
        ELSE IF i2.panic THEN [t |-> i2.t, res |-> FALSE, panic |-> TRUE]
        ELSE [t |-> i2.t, res |-> DeepEqual(i1.res, i2.res), panic |-> FALSE]

(***************************************************************************)
(* LB                                                                      *)
(***************************************************************************)
RECURSIVE listenerPortsFrom(_, _)
listenerPortsFrom(listeners, i) ==
    IF i > Len(listeners) THEN <<>>
    ELSE <<listeners[i].LoadBalancerPort>> \o listenerPortsFrom(listeners, i + 1)

listenerPorts(listeners) == listenerPortsFrom(listeners, 1)

RECURSIVE addPortsFrom(_, _, _)
addPortsFrom(lbPorts, ports, i) ==
    IF i > Len(ports) THEN lbPorts
    ELSE addPortsFrom(lbPorts \cup {ports[i]}, ports, i + 1)

\* LB.addPorts
addPorts(c, ports) == [c EXCEPT !.ports = addPortsFrom(@, ports, 1)]

RECURSIVE addSecurityGroupsFrom(_, _, _)
addSecurityGroupsFrom(lbSgs, sgs, i) ==
    IF i > Len(sgs) THEN lbSgs
    ELSE addSecurityGroupsFrom(lbSgs \cup {sgs[i]}, sgs, i + 1)

\* LB.addSecurityGroups
addSecurityGroups(c, sgs) == [c EXCEPT !.securityGroups = addSecurityGroupsFrom(@, sgs, 1)]

\* LB.replaceELB: append the name, add the listener ports and the security groups.
\* A replaceELB that puts the name in front of the names the LB has.
replaceELBInFront(c, lb) ==
    addSecurityGroups(
        addPorts([c EXCEPT !.elbs = <<lb.LoadBalancerName>> \o @],
                 listenerPorts(lb.ListenerDescriptions)),
        lb.SecurityGroups)

\* An LB that keeps only the security groups of the last ELB it replaces.
replaceELBWithLastSecurityGroups(c, lb) ==
    addSecurityGroups(
        addPorts([c EXCEPT !.elbs = Append(@, lb.LoadBalancerName),
                           !.securityGroups = {}],
                 listenerPorts(lb.ListenerDescriptions)),
        lb.SecurityGroups)

replaceELB(c, lb) ==
    addSecurityGroups(
        addPorts([c EXCEPT !.elbs = Append(@, lb.LoadBalancerName)],
                 listenerPorts(lb.ListenerDescriptions)),
        lb.SecurityGroups)

newLB(lb) == replaceELB([elbs |-> <<>>, ports |-> {}, securityGroups |-> {}], lb)

\* LB.hasPortCollision: some listener port of lb is already a port of c.
hasPortCollisionFirstListener(c, lb) ==
    /\ lb.ListenerDescriptions # <<>>
    /\ lb.ListenerDescriptions[1].LoadBalancerPort \in c.ports

hasPortCollision(c, lb) ==
    \E i \in 1..Len(lb.ListenerDescriptions) :
        lb.ListenerDescriptions[i].LoadBalancerPort \in c.ports

(***************************************************************************)
(* inspectListeners                                                        *)
(***************************************************************************)
RECURSIVE protocolsOf(_, _, _)
protocolsOf(protocols, lds, i) ==
    IF i > Len(lds) THEN protocols
    ELSE LET l == lds[i]
             p == CASE l.Protocol \in {"HTTP", "HTTPS"} -> {"HTTP"}
                    [] l.Protocol = "TCP" ->
                         IF l.LoadBalancerPort = 80 \/ l.LoadBalancerPort = 443
                         THEN {"HTTP"} ELSE {"TCP"}
                    [] OTHER -> {}
         IN  protocolsOf(protocols \cup p, lds, i + 1)

\* inspectListeners with a TCP listener counted as TCP whatever its port.
inspectListenersPortBlind(lb) ==
    LET protocols ==
            { IF lb.ListenerDescriptions[i].Protocol = "TCP" THEN "TCP" ELSE "HTTP"
              : i \in { j \in 1..Len(lb.ListenerDescriptions) :
                          lb.ListenerDescriptions[j].Protocol \in {"HTTP", "HTTPS", "TCP"} } }
    IN  CASE Cardinality(protocols) = 0 -> Panic
          [] Cardinality(protocols) = 1 -> IF "HTTP" \in protocols THEN ALB ELSE NLB
          [] OTHER -> ELB

inspectListeners(lb) ==
    LET protocols == protocolsOf({}, lb.ListenerDescriptions, 1)
    IN  CASE Cardinality(protocols) = 0 -> Panic
          [] Cardinality(protocols) = 1 -> IF "HTTP" \in protocols THEN ALB ELSE NLB
          [] OTHER -> ELB

(***************************************************************************)
(* addELBv2                                                                *)
(*                                                                         *)
(* list and bySg are the list and the security group index of the target   *)
(* type in the recommendation (what the add and associate closures and     *)
(* existingELBv2sBySg reach); t carries the ingress cache.  The result is  *)
(* the set of what one call can produce: Go ranges over the map            *)
(* existingELBv2sBySg in an unspecified order, so the scan below takes the *)
(* keys in any order.                                                      *)
(***************************************************************************)
RECURSIVE associateFrom(_, _, _, _)
associateFrom(bySg, elbv2, sgs, i) ==
    IF i > Len(sgs) THEN bySg
    ELSE associateFrom(MapPut(bySg, sgs[i], elbv2), elbv2, sgs, i + 1)

\* An association that keeps the LB a security group is already associated with.
associateWithSecurityGroupsKeepingEarlier(bySg, elbv2, sgs) ==
    [sg \in (DOMAIN bySg) \cup { sgs[i] : i \in 1..Len(sgs) } |->
        IF sg \in DOMAIN bySg THEN bySg[sg] ELSE elbv2]

\* recommendation.associate{ALB,NLB,ELB}WithSecurityGroups
associateWithSecurityGroups(bySg, elbv2, sgs) == associateFrom(bySg, elbv2, sgs, 1)

\* A new LB whose security groups are associated with the LB before it.
placeNewAssociatingPrevious(t, lb, list, bySg) ==
    [t     |-> t,
     list  |-> Append(list, newLB(lb)),
     bySg  |-> associateWithSecurityGroups(bySg, Len(list), lb.SecurityGroups),
     panic |-> FALSE]

\* add(newLB(lb)); associate(elbv2, lb.SecurityGroups)
placeNew(t, lb, list, bySg) ==
    [t     |-> t,
     list  |-> Append(list, newLB(lb)),
     bySg  |-> associateWithSecurityGroups(bySg, Len(list) + 1, lb.SecurityGroups),
     panic |-> FALSE]

\* associate(elbv2, lb.SecurityGroups); elbv2.replaceELB(lb)
placeIntoWithoutReturn(t, lb, list, bySg, elbv2) ==
    [t     |-> t,
     list  |-> Append([list EXCEPT ![elbv2] = replaceELB(@, lb)], newLB(lb)),
     bySg  |-> associateWithSecurityGroups(bySg, Len(list) + 1, lb.SecurityGroups),
     panic |-> FALSE]

placeInto(t, lb, list, bySg, elbv2) ==
    [t     |-> t,
     list  |-> [list EXCEPT ![elbv2] = replaceELB(@, lb)],
     bySg  |-> associateWithSecurityGroups(bySg, elbv2, lb.SecurityGroups),
     panic |-> FALSE]

\* The port rule of lines 406 and 416.
portRule(allowPortCollisions, c, lb) == allowPortCollisions \/ ~hasPortCollision(c, lb)

\* A scan that never finds a security group with the same ingress.
scanSeenSgsNoMatch(t, lb, lbSecurityGroup, allowPortCollisions, list, bySg, remaining) ==
    {[kind |-> "miss", t |-> t, elbv2 |-> 0]}

\* A scan that takes every security group seen for one with the same ingress.
scanSeenSgsAnyIngress(t, lb, lbSecurityGroup, allowPortCollisions, list, bySg, remaining) ==
    LET passing == { seenSg \in remaining :
                       portRule(allowPortCollisions, list[bySg[seenSg]], lb) }
    IN  IF passing = {} THEN {[kind |-> "miss", t |-> t, elbv2 |-> 0]}
        ELSE { [kind |-> "hit", t |-> t, elbv2 |-> bySg[seenSg]] : seenSg \in passing }

\* for seenSg := range existingELBv2sBySg: the keys not yet visited are
\* remaining, and any of them may come next.  "miss" is a scan that ended
\* without a match.
RECURSIVE scanSeenSgs(_, _, _, _, _, _, _)
scanSeenSgs(t, lb, lbSecurityGroup, allowPortCollisions, list, bySg, remaining) ==
    IF remaining = {} THEN {[kind |-> "miss", t |-> t, elbv2 |-> 0]}
    ELSE UNION {
        LET h == hasSameIngress(t, seenSg, lbSecurityGroup)
        IN  IF h.panic THEN {[kind |-> "panic", t |-> h.t, elbv2 |-> 0]}
            ELSE IF h.res /\ portRule(allowPortCollisions, list[bySg[seenSg]], lb)
            THEN {[kind |-> "hit", t |-> h.t, elbv2 |-> bySg[seenSg]]}
            ELSE scanSeenSgs(h.t, lb, lbSecurityGroup, allowPortCollisions, list, bySg,
                             remaining \ {seenSg})
        : seenSg \in remaining }

\* A loop that tries the exact lookup of every security group before the scan
\* of any of them.
trySecurityGroupsExactFirst(t, lb, allowPortCollisions, list, bySg, i) ==
    LET n     == Len(lb.SecurityGroups)
        exact == { j \in i..n :
                     /\ lb.SecurityGroups[j] \in DOMAIN bySg
                     /\ portRule(allowPortCollisions, list[bySg[lb.SecurityGroups[j]]], lb) }
        scan[j \in i..(n + 1)] ==
            IF j > n THEN {placeNew(t, lb, list, bySg)}
            ELSE UNION {
                CASE o.kind = "panic" ->
                       {[t |-> o.t, list |-> list, bySg |-> bySg, panic |-> TRUE]}
                  [] o.kind = "hit" -> {placeInto(o.t, lb, list, bySg, o.elbv2)}
                  [] OTHER -> scan[j + 1]
                : o \in scanSeenSgs(t, lb, lb.SecurityGroups[j], allowPortCollisions,
                                    list, bySg, DOMAIN bySg) }
    IN  IF exact = {} THEN scan[i]
        ELSE {placeInto(t, lb, list, bySg,
                        bySg[lb.SecurityGroups[CHOOSE j \in exact : \A k \in exact : j <= k]])}

\* for _, lbSecurityGroup := range lb.SecurityGroups, from the i-th on.
RECURSIVE trySecurityGroups(_, _, _, _, _, _)
trySecurityGroups(t, lb, allowPortCollisions, list, bySg, i) ==
    IF i > Len(lb.SecurityGroups) THEN {placeNew(t, lb, list, bySg)}
    ELSE LET lbSecurityGroup == lb.SecurityGroups[i]
         IN  IF /\ lbSecurityGroup \in DOMAIN bySg
                /\ portRule(allowPortCollisions, list[bySg[lbSecurityGroup]], lb)
             THEN {placeInto(t, lb, list, bySg, bySg[lbSecurityGroup])}
             ELSE UNION {
                 CASE o.kind = "panic" ->
                        {[t |-> o.t, list |-> list, bySg |-> bySg, panic |-> TRUE]}
                   [] o.kind = "hit" -> {placeInto(o.t, lb, list, bySg, o.elbv2)}
                   [] OTHER ->
                        trySecurityGroups(o.t, lb, allowPortCollisions, list, bySg, i + 1)
                 : o \in scanSeenSgs(t, lb, lbSecurityGroup, allowPortCollisions,
                                     list, bySg, DOMAIN bySg) }

\* An addELBv2 that merges a load balancer without security groups into the
\* last LB of the list.
addELBv2MergingWithoutSecurityGroups(lb, t, firstELBv2, allowPortCollisions, list, bySg) ==
    IF firstELBv2 THEN {placeNew(t, lb, list, bySg)}
    ELSE IF lb.SecurityGroups = <<>> THEN {placeInto(t, lb, list, bySg, Len(list))}
    ELSE trySecurityGroups(t, lb, allowPortCollisions, list, bySg, 1)

addELBv2(lb, t, firstELBv2, allowPortCollisions, list, bySg) ==
    IF firstELBv2 THEN {placeNew(t, lb, list, bySg)}
    ELSE trySecurityGroups(t, lb, allowPortCollisions, list, bySg, 1)

(***************************************************************************)
(* elbDrop: the tier, the target type, the placement.  The result is the   *)
(* set of the outcomes [t, targetLB, panic] one call can have.             *)
(***************************************************************************)
\* ALBs can do port collisions, NLBs and ELBs cannot.
allowPortCollisionsForNone(type) == FALSE

allowPortCollisionsFor(type) == type = ALB

\* An elbDrop that puts every load balancer in the list of the ALBs.
elbDropIntoALBs(t, lb) ==
    LET a    == assignTier(t, lb)
        type == inspectListeners(lb)
    IN  IF type = Panic
        THEN {[t |-> a.t, targetLB |-> type, panic |-> TRUE]}
        ELSE LET recommendation == a.t.tiers[a.tier].recommendation
                 list == recommendation[ListField(ALB)]
                 bySg == recommendation[BySgField(ALB)]
             IN  { [t |-> [o.t EXCEPT
                             !.tiers[a.tier].recommendation[ListField(ALB)] = o.list,
                             !.tiers[a.tier].recommendation[BySgField(ALB)] = o.bySg],
                    targetLB |-> type,
                    panic |-> o.panic]
                   : o \in addELBv2(lb, a.t, Len(list) = 0,
                                    allowPortCollisionsFor(type), list, bySg) }

\* An elbDrop that writes the security group index of every type.
elbDropIndexingEveryType(t, lb) ==
    LET a    == assignTier(t, lb)
        type == inspectListeners(lb)
    IN  IF type = Panic
        THEN {[t |-> a.t, targetLB |-> type, panic |-> TRUE]}
        ELSE LET recommendation == a.t.tiers[a.tier].recommendation
                 list == recommendation[ListField(type)]
                 bySg == recommendation[BySgField(type)]
             IN  { [t |-> [o.t EXCEPT
                             !.tiers[a.tier].recommendation[ListField(type)] = o.list,
                             !.tiers[a.tier].recommendation.albsBySg = o.bySg,
                             !.tiers[a.tier].recommendation.nlbsBySg = o.bySg,
                             !.tiers[a.tier].recommendation.elbsBySg = o.bySg],
                    targetLB |-> type,
                    panic |-> o.panic]
                   : o \in addELBv2(lb, a.t, Len(list) = 0,
                                    allowPortCollisionsFor(type), list, bySg) }

\* An elbDrop that skips a load balancer without target type and goes on.
elbDropSkipping(t, lb) ==
    LET a    == assignTier(t, lb)
        type == inspectListeners(lb)
    IN  IF type = Panic
        THEN {[t |-> a.t, targetLB |-> type, panic |-> FALSE]}
        ELSE LET recommendation == a.t.tiers[a.tier].recommendation
                 list == recommendation[ListField(type)]
                 bySg == recommendation[BySgField(type)]
             IN  { [t |-> [o.t EXCEPT
                             !.tiers[a.tier].recommendation[ListField(type)] = o.list,
                             !.tiers[a.tier].recommendation[BySgField(type)] = o.bySg],
                    targetLB |-> type,
                    panic |-> o.panic]
                   : o \in addELBv2(lb, a.t, Len(list) = 0,
                                    allowPortCollisionsFor(type), list, bySg) }

elbDrop(t, lb) ==
    LET a    == assignTier(t, lb)
        type == inspectListeners(lb)
    IN  IF type = Panic
        THEN {[t |-> a.t, targetLB |-> type, panic |-> TRUE]}
        ELSE LET recommendation == a.t.tiers[a.tier].recommendation
                 list == recommendation[ListField(type)]
                 bySg == recommendation[BySgField(type)]
             IN  { [t |-> [o.t EXCEPT
                             !.tiers[a.tier].recommendation[ListField(type)] = o.list,
                             !.tiers[a.tier].recommendation[BySgField(type)] = o.bySg],
                    targetLB |-> type,
                    panic |-> o.panic]
                   : o \in addELBv2(lb, a.t, Len(list) = 0,
                                    allowPortCollisionsFor(type), list, bySg) }

\* tiers.recommendations: every tier's recommendation, in the order of the
\* list of tiers, with its subnets set to the tier's sorted keys.
RECURSIVE recommendationsFrom(_, _)
recommendationsFrom(t, i) ==
    IF i > Len(t.tiers) THEN [t |-> t, result |-> <<>>]
    ELSE LET set  == [t EXCEPT !.tiers[i].recommendation.subnets = keys(t.tiers[i])]
             rest == recommendationsFrom(set, i + 1)
         IN  [t |-> rest.t, result |-> <<set.tiers[i].recommendation>> \o rest.result]

\* Recommendations that leave out a tier no subnet is associated with any more.
recommendationsOfMappedTiers(t) ==
    LET all    == recommendationsFrom(t, 1)
        mapped == { t.tiersBySubnet[s] : s \in DOMAIN t.tiersBySubnet }
        kept[i \in 0..Len(all.result)] ==
            IF i = 0 THEN <<>>
            ELSE IF i \in mapped THEN Append(kept[i - 1], all.result[i])
            ELSE kept[i - 1]
    IN  [t |-> all.t, result |-> kept[Len(all.result)]]

recommendations(t) == recommendationsFrom(t, 1)

(***************************************************************************)
(* Inputs.  A load balancer descriptor has the fields of                   *)
(* elb.LoadBalancerDescription the engine reads; its LoadBalancerName is   *)
(* its position in the input, so names are unique.  Subnets is never empty *)
(* (the input contract; the test builder refuses an empty list).           *)
(***************************************************************************)
Listener(protocol, port) == [Protocol |-> protocol, LoadBalancerPort |-> port]

Descriptors(subnetLists, listenerLists, sgLists) ==
    { [Subnets |-> s, ListenerDescriptions |-> l, SecurityGroups |-> g]
      : s \in subnetLists, l \in listenerLists, g \in sgLists }

withName(d, name) ==
    [LoadBalancerName     |-> name,
     Subnets              |-> d.Subnets,
     ListenerDescriptions |-> d.ListenerDescriptions,
     SecurityGroups       |-> d.SecurityGroups]

\* The security group lookup of the engine runs: sg-1, sg-2 and sg-3 allow the
\* same range (written three ways), sg-4 allows one range more, and sg-5 is
\* referenced by load balancers but has no entry.
SgLookup ==
    [sg \in {"sg-1", "sg-2", "sg-3", "sg-4"} |->
        CASE sg = "sg-1" -> << <<"10.0.0.0/8">> >>
          [] sg = "sg-2" -> << <<"10.0.0.0/8">>, <<"10.0.0.0/8">> >>
          [] sg = "sg-3" -> << <<"10.0.0.0/8", "10.0.0.0/8">>, <<>> >>
          [] OTHER       -> << <<"10.0.0.0/8">>, <<"192.168.0.1/32">> >>]

\* Load balancers that differ in their subnets.
TierInputs ==
    Descriptors({<<"a">>, <<"b">>, <<"c">>, <<"a", "b">>, <<"b", "c">>, <<"c", "a">>},
                {<<Listener("HTTP", 80)>>},
                {<<"sg-1">>})

\* TCP and mixed load balancers of one subnet that differ in their ports,
\* behind security groups with the same ingress.
PortInputs ==
    Descriptors({<<"a">>},
                {<<Listener("TCP", 8080)>>, <<Listener("TCP", 8081)>>},
                {<<"sg-1">>, <<"sg-2">>, <<"sg-3">>})
    \cup
    Descriptors({<<"a">>},
                {<<Listener("TCP", 8081), Listener("TCP", 8080)>>,
                 <<Listener("HTTP", 80), Listener("TCP", 8080)>>,
                 <<Listener("HTTPS", 443), Listener("TCP", 8081)>>},
                {<<"sg-1">>})

\* HTTP load balancers of one subnet that differ in their security groups.
SgInputs ==
    Descriptors({<<"a">>},
                {<<Listener("HTTP", 80)>>},
                {<<>>, <<"sg-1">>, <<"sg-2">>, <<"sg-4">>, <<"sg-1", "sg-4">>,
                 <<"sg-4", "sg-1">>, <<"sg-2", "sg-4">>, <<"sg-5">>})

\* Load balancers of the three target types in two subnets, one without
\* security groups, and two that have no listener of a known protocol.
MixedInputs ==
    Descriptors({<<"a">>, <<"b">>},
                {<<Listener("HTTP", 80), Listener("HTTPS", 443)>>,
                 <<Listener("TCP", 8080)>>,
                 <<Listener("TCP", 11210), Listener("HTTPS", 443), Listener("HTTP", 80)>>},
                {<<"sg-1">>})
    \cup
    Descriptors({<<"a">>}, {<<Listener("TCP", 8081)>>}, {<<>>})
    \cup
    Descriptors({<<"a">>}, {<<>>, <<Listener("UDP", 53)>>}, {<<"sg-1">>})

Universes == {TierInputs, PortInputs, SgInputs, MixedInputs}

(***************************************************************************)
(* The state machine of generateRecommendations.                           *)
(***************************************************************************)
\* The tiers struct, from the variables that hold its fields.
Engine ==
    [tiersBySubnet  |-> tiersBySubnet,
     tiers          |-> tiers,
     securityGroups |-> securityGroups,
     ingressesBySg  |-> ingressesBySg]

NoCall == [sg1 |-> "", sg2 |-> "", res |-> FALSE, panic |-> FALSE]

\* A float64 that is the quotient of two integers; den = 0 is NaN or an infinity.
Float(num, den) == [num |-> num, den |-> den]

NothingPrinted ==
    [currentElbCount |-> 0, albCount |-> 0, nlbCount |-> 0, elbCount |-> 0,
     saving |-> Float(0, 1)]

InitWith(U, sgs) ==
    /\ universe = U
    /\ elbs = <<>>
    /\ securityGroups = sgs
    /\ tiersBySubnet = newTiers(sgs).tiersBySubnet
    /\ tiers = newTiers(sgs).tiers
    /\ ingressesBySg = newTiers(sgs).ingressesBySg
    /\ targetLB = ""
    /\ sameIngress = NoCall
    /\ status = "running"
    /\ result = <<>>
    /\ printed = NothingPrinted

Init == \E U \in Universes : InitWith(U, SgLookup)

\* One turn of the loop of generateRecommendations: elbDrop(tiers, lb) for the
\* next load balancer of the input, as long as the input is shorter than max.
ElbDropUpTo(max) ==
    /\ status = "running"
    /\ Len(elbs) < max
    /\ \E d \in universe :
         LET lb == withName(d, Len(elbs) + 1)
         IN  \E o \in elbDrop(Engine, lb) :
               /\ elbs' = Append(elbs, lb)
               /\ tiersBySubnet' = o.t.tiersBySubnet
               /\ tiers' = o.t.tiers
               /\ ingressesBySg' = o.t.ingressesBySg
               /\ targetLB' = o.targetLB
               /\ status' = IF o.panic THEN "panicked" ELSE "running"
    /\ UNCHANGED <<universe, securityGroups, sameIngress, result, printed>>

ElbDrop == ElbDropUpTo(MaxLBs)

\* The end of the input: return tiers.recommendations().
Return ==
    /\ status = "running"
    /\ LET r == recommendations(Engine)
       IN  /\ tiers' = r.t.tiers
           /\ result' = r.result
    /\ status' = "returned"
    /\ UNCHANGED <<universe, elbs, securityGroups, tiersBySubnet, ingressesBySg,
                   targetLB, sameIngress, printed>>

Next == ElbDrop \/ Return

Spec == Init /\ [][Next]_vars

(***************************************************************************)
(* generateRecommendations as a function of its input: the outcomes        *)
(* [t, panic, moved] a run over the load balancers input[i..] can have     *)
(* from the outcome o.  moved records that a subnet of tiersBySubnet was   *)
(* given another tier.                                                     *)
(***************************************************************************)
Moved(before, after) ==
    \E s \in DOMAIN before.tiersBySubnet :
        after.tiersBySubnet[s] # before.tiersBySubnet[s]

RECURSIVE runFrom(_, _, _)
runFrom(o, input, i) ==
    IF o.panic \/ i > Len(input) THEN {o}
    ELSE UNION { runFrom([t     |-> n.t,
                          panic |-> n.panic,
                          moved |-> o.moved \/ Moved(o.t, n.t)], input, i + 1)
                 : n \in elbDrop(o.t, input[i]) }

generateRecommendations(input, sgs) ==
    { [t      |-> recommendations(o.t).t,
       result |-> IF o.panic THEN Panic ELSE recommendations(o.t).result,
       panic  |-> o.panic,
       moved  |-> o.moved]
      : o \in runFrom([t |-> newTiers(sgs), panic |-> FALSE, moved |-> FALSE], input, 1) }

(***************************************************************************)
(* The engine on short inputs, for the properties that compare the runs    *)
(* over every order of the input.                                          *)
(***************************************************************************)
InitOrder == \E U \in {TierInputs, SgInputs} : InitWith(U, SgLookup)

ElbDropOrder == ElbDropUpTo(MaxOrderLBs)

NextOrder == ElbDropOrder \/ Return

SpecOrder == InitOrder /\ [][NextOrder]_vars

(***************************************************************************)
(* The engine on load balancers that differ in their subnets only, for the *)
(* properties of the tiers.                                                *)
(***************************************************************************)
InitTiers == InitWith(TierInputs, SgLookup)

ElbDropTiers == ElbDropUpTo(MaxLBs)

NextTiers == ElbDropTiers \/ Return

SpecTiers == InitTiers /\ [][NextTiers]_vars

(***************************************************************************)
(* hasSameIngress on its own: any two security groups of a lookup, called  *)
(* in any order on the cache the earlier calls left.                       *)
(***************************************************************************)
Cidrs == {"10.0.0.0/8", "192.168.0.1/32"}

\* The IpRanges of one permission: up to MaxRanges ranges.
RECURSIVE SeqsUpTo(_, _)
SeqsUpTo(S, n) ==
    IF n = 0 THEN {<<>>}
    ELSE LET shorter == SeqsUpTo(S, n - 1)
         IN  shorter \cup { Append(q, x) : q \in shorter, x \in S }

IpRangeLists == SeqsUpTo(Cidrs, MaxRanges)

\* The IpPermissions of one security group: none, one or two permissions.
PermissionLists ==
    {<<>>} \cup { <<p>> : p \in IpRangeLists }
           \cup { <<p, q>> : p \in IpRangeLists, q \in IpRangeLists }

IngressLookups == [{"sg-1", "sg-2"} -> PermissionLists]

InitIngress == \E sgs \in IngressLookups : InitWith({}, sgs)

HasSameIngress ==
    /\ status = "running"
    /\ \E sg1, sg2 \in {"sg-1", "sg-2", "sg-5"} :
         LET h == hasSameIngress(Engine, sg1, sg2)
         IN  /\ sameIngress' = [sg1 |-> sg1, sg2 |-> sg2, res |-> h.res, panic |-> h.panic]
             /\ ingressesBySg' = h.t.ingressesBySg
             /\ status' = IF h.panic THEN "panicked" ELSE "running"
    /\ UNCHANGED <<universe, elbs, securityGroups, tiersBySubnet, tiers, targetLB, result,
                   printed>>

NextIngress == HasSameIngress

SpecIngress == InitIngress /\ [][NextIngress]_vars

(***************************************************************************)
(* inspectListeners on its own: any list of up to MaxListeners listeners.  *)
(***************************************************************************)
Protocols == {"HTTP", "HTTPS", "TCP", "UDP", "SSL"}

Ports == {80, 443, 8080}

ListenerLists ==
    SeqsUpTo({ Listener(protocol, port) : protocol \in Protocols, port \in Ports },
             MaxListeners)

InitClassify == InitWith({}, SgLookup)

\* One call of inspectListeners, on a load balancer with the listeners l.
InspectListeners ==
    /\ status = "running"
    /\ elbs = <<>>
    /\ \E l \in ListenerLists :
         LET lb == withName([Subnets |-> <<"a">>, ListenerDescriptions |-> l,
                             SecurityGroups |-> <<>>], 1)
         IN  /\ elbs' = <<lb>>
             /\ targetLB' = inspectListeners(lb)
             /\ status' = IF inspectListeners(lb) = Panic THEN "panicked" ELSE "running"
    /\ UNCHANGED <<universe, securityGroups, tiersBySubnet, tiers, ingressesBySg,
                   sameIngress, result, printed>>

NextClassify == InspectListeners

SpecClassify == InitClassify /\ [][NextClassify]_vars

(***************************************************************************)
(* printRecommendations: the counts over the recommendations returned and  *)
(* the saving.  The float64 values of saving are quotients of integers,    *)
(* and its arithmetic is that of the quotients (0.9 is 9/10).              *)
(***************************************************************************)
FloatAdd(x, y) == Float(x.num * y.den + y.num * x.den, x.den * y.den)

FloatSub(x, y) == Float(x.num * y.den - y.num * x.den, x.den * y.den)

FloatMul(x, y) == Float(x.num * y.num, x.den * y.den)

FloatDiv(x, y) == Float(x.num * y.den, x.den * y.num)

\* count: the number of LBs of a list and of the ELBs they replace.
RECURSIVE count(_)
count(lbs) ==
    IF lbs = <<>> THEN [elbs |-> 0, lbs |-> 0]
    ELSE LET res == count(Tail(lbs))
         IN  [elbs |-> Len(Head(lbs).elbs) + res.elbs, lbs |-> 1 + res.lbs]

\* A saving in which an ALB or NLB costs a tenth more than an ELB.
savingAtALBPremium(current, alb, nlb, elb) ==
    FloatMul(FloatDiv(FloatSub(Float(current, 1),
                               FloatAdd(FloatMul(FloatAdd(Float(alb, 1), Float(nlb, 1)),
                                                 Float(11, 10)),
                                        Float(elb, 1))),
                      Float(current, 1)),
             Float(100, 1))

\* A saving in which an ALB or NLB costs what an ELB costs.
savingAtELBCost(current, alb, nlb, elb) ==
    FloatMul(FloatDiv(FloatSub(Float(current, 1),
                               FloatAdd(FloatAdd(Float(alb, 1), Float(nlb, 1)),
                                        Float(elb, 1))),
                      Float(current, 1)),
             Float(100, 1))

saving(current, alb, nlb, elb) ==
    FloatMul(FloatDiv(FloatSub(Float(current, 1),
                               FloatAdd(FloatMul(FloatAdd(Float(alb, 1), Float(nlb, 1)),
                                                 Float(9, 10)),
                                        Float(elb, 1))),
                      Float(current, 1)),
             Float(100, 1))

\* The loop of printRecommendations over the recommendations from the i-th on.
RECURSIVE printRecommendationsFrom(_, _, _)
printRecommendationsFrom(recs, i, sums) ==
    IF i > Len(recs) THEN sums
    ELSE LET r == recs[i]
         IN  printRecommendationsFrom(recs, i + 1,
                 [currentElbCount |-> sums.currentElbCount + count(r.albs).elbs
                                        + count(r.nlbs).elbs + count(r.elbs).elbs,
                  albCount |-> sums.albCount + count(r.albs).lbs,
                  nlbCount |-> sums.nlbCount + count(r.nlbs).lbs,
                  elbCount |-> sums.elbCount + count(r.elbs).lbs])

printRecommendations(recs) ==
    LET sums == printRecommendationsFrom(recs, 1,
                    [currentElbCount |-> 0, albCount |-> 0, nlbCount |-> 0, elbCount |-> 0])
    IN  [currentElbCount |-> sums.currentElbCount,
         albCount |-> sums.albCount,
         nlbCount |-> sums.nlbCount,
         elbCount |-> sums.elbCount,
         saving   |-> saving(sums.currentElbCount, sums.albCount, sums.nlbCount,
                             sums.elbCount)]

\* main after generateRecommendations has returned: printRecommendations.
PrintRecommendations ==
    /\ status = "returned"
    /\ printed' = printRecommendations(result)
    /\ status' = "printed"
    /\ UNCHANGED <<universe, elbs, securityGroups, tiersBySubnet, tiers, ingressesBySg,
                   targetLB, sameIngress, result>>

InitPrint == \E U \in {MixedInputs, PortInputs} : InitWith(U, SgLookup)

ElbDropPrint == ElbDropUpTo(MaxLBs)

NextPrint == ElbDropPrint \/ Return \/ PrintRecommendations

SpecPrint == InitPrint /\ [][NextPrint]_vars

(***************************************************************************)
(* Vocabulary of the properties.                                           *)
(***************************************************************************)
Names == 1..Len(elbs)

\* The consolidated load balancers of the current state: tier, type, index.
CLBs ==
    UNION { { <<i, type, k>> : k \in 1..Len(tiers[i].recommendation[ListField(type)]) }
            : i \in 1..Len(tiers), type \in LbTypes }

CLB(c) == tiers[c[1]].recommendation[ListField(c[2])][c[3]]

\* The places a name holds in the replaced-names lists: CLB and position.
PlacesOf(n) ==
    UNION { { <<c, j>> : j \in { k \in 1..Len(CLB(c).elbs) : CLB(c).elbs[k] = n } }
            : c \in CLBs }

\* The CLBs that name n.
HoldersOf(n) == { c \in CLBs : \E j \in 1..Len(CLB(c).elbs) : CLB(c).elbs[j] = n }

\* The tiers under whose recommendation a name is listed.
TiersOf(n) ==
    { i \in 1..Len(tiers) :
        \E type \in LbTypes :
            \E k \in 1..Len(tiers[i].recommendation[ListField(type)]) :
                \E j \in 1..Len(tiers[i].recommendation[ListField(type)][k].elbs) :
                    tiers[i].recommendation[ListField(type)][k].elbs[j] = n }

\* The lengths of the replaced-names lists of the CLBs of S, added up.
RECURSIVE NameCount(_)
NameCount(S) ==
    IF S = {} THEN 0
    ELSE LET c == CHOOSE x \in S : TRUE IN Len(CLB(c).elbs) + NameCount(S \ {c})

SubnetsOf(n) == { elbs[n].Subnets[i] : i \in 1..Len(elbs[n].Subnets) }

PortsOf(n) ==
    { elbs[n].ListenerDescriptions[i].LoadBalancerPort
      : i \in 1..Len(elbs[n].ListenerDescriptions) }

SgsOf(n) == { elbs[n].SecurityGroups[i] : i \in 1..Len(elbs[n].SecurityGroups) }

\* The load balancers linked to those of S through shared subnets.
RECURSIVE LinkedTo(_)
LinkedTo(S) ==
    LET more == { n \in Names : \E m \in S : SubnetsOf(m) \cap SubnetsOf(n) # {} }
    IN  IF more \subseteq S THEN S ELSE LinkedTo(S \cup more)

(***************************************************************************)
(* C1: as long as the run has not aborted, every load balancer processed   *)
(* so far is named exactly once, in exactly one consolidated load          *)
(* balancer over all tiers and types, so the lengths of the replaced-names *)
(* lists add up to the number of load balancers processed; and the         *)
(* returned recommendations are those of the tiers.                        *)
(***************************************************************************)
C1_EveryLoadBalancerInExactlyOneCLB ==
    status # "panicked" =>
        /\ \A n \in Names : Cardinality(PlacesOf(n)) = 1
        /\ NameCount(CLBs) = Len(elbs)
        /\ status = "returned" =>
             /\ Len(result) = Len(tiers)
             /\ \A i \in 1..Len(tiers) : result[i] = tiers[i].recommendation

C1_Witness ==
    /\ status = "returned"
    /\ Len(elbs) >= 3
    /\ Cardinality(CLBs) >= 2
    /\ \E c \in CLBs : Len(CLB(c).elbs) >= 2

(***************************************************************************)
(* C2: two load balancers whose subnet lists share a subnet are under the  *)
(* same recommendation.  The engine does not keep this: a load balancer    *)
(* whose first subnet is new starts a tier of its own and takes its later  *)
(* subnets away from the tier that had them.                               *)
(***************************************************************************)
C2_SharedSubnetSameTier ==
    status # "panicked" =>
        \A m, n \in Names :
            SubnetsOf(m) \cap SubnetsOf(n) # {} => TiersOf(m) = TiersOf(n)

(***************************************************************************)
(* C3: two load balancers under the same recommendation are linked by a    *)
(* chain of load balancers of the input that share subnets; so two load    *)
(* balancers with disjoint subnets and no such chain are under different   *)
(* recommendations.                                                        *)
(***************************************************************************)
C3_UnlinkedLoadBalancersInDifferentTiers ==
    status # "panicked" =>
        \A m \in Names :
            \A n \in Names \ LinkedTo({m}) : TiersOf(m) \cap TiersOf(n) = {}

C3_Witness ==
    /\ status = "returned"
    /\ Len(elbs) >= 3
    /\ \E m, n \in Names :
         /\ n \notin LinkedTo({m})
         /\ TiersOf(m) # {} /\ TiersOf(n) # {}
         /\ TiersOf(m) \cap TiersOf(n) = {}
    /\ \E m, n \in Names :
         /\ m # n /\ SubnetsOf(m) \cap SubnetsOf(n) = {}
         /\ n \in LinkedTo({m}) /\ TiersOf(m) = TiersOf(n)

(***************************************************************************)
(* C4: the load balancers replaced by one NLB or one ELB have pairwise     *)
(* disjoint listener ports, and the ports of such a consolidated load      *)
(* balancer are exactly theirs: a load balancer is never merged into an    *)
(* NLB or ELB that already has one of its ports, whatever its security     *)
(* groups.                                                                 *)
(***************************************************************************)
C4_NoPortCollisionInNLBOrELB ==
    \A c \in CLBs :
        c[2] \in {NLB, ELB} =>
            /\ \A j, k \in 1..Len(CLB(c).elbs) :
                   j # k => PortsOf(CLB(c).elbs[j]) \cap PortsOf(CLB(c).elbs[k]) = {}
            /\ CLB(c).ports = UNION { PortsOf(CLB(c).elbs[j]) : j \in 1..Len(CLB(c).elbs) }

C4_Witness ==
    /\ status = "returned"
    /\ \E m, n \in Names :
         /\ m # n
         /\ inspectListeners(elbs[m]) = NLB /\ inspectListeners(elbs[n]) = NLB
         /\ SgsOf(m) = SgsOf(n)
         /\ PortsOf(m) \cap PortsOf(n) # {}
         /\ TiersOf(m) = TiersOf(n)
         /\ HoldersOf(m) \cap HoldersOf(n) = {}
    /\ \E c \in CLBs : c[2] = NLB /\ Len(CLB(c).elbs) >= 2

\* Two load balancers of one tier, both ALB, with the same security groups.
SameALBCase(m, n) ==
    /\ SgsOf(m) # {} /\ SgsOf(m) = SgsOf(n)
    /\ inspectListeners(elbs[m]) = ALB /\ inspectListeners(elbs[n]) = ALB
    /\ TiersOf(m) = TiersOf(n)

(***************************************************************************)
(* C5: two load balancers of the same tier, both classified ALB, with the  *)
(* same non-empty set of security groups are in the same ALB, whatever     *)
(* was processed before and between them.  The engine does not keep this:  *)
(* a load balancer between them can point their security group at another  *)
(* ALB.                                                                    *)
(***************************************************************************)
C5_SameSecurityGroupsSameALB ==
    status # "panicked" =>
        \A m, n \in Names : SameALBCase(m, n) => HoldersOf(m) = HoldersOf(n)

(***************************************************************************)
(* C5, amended: the two are in the same ALB, even when their ports         *)
(* collide, when no load balancer processed between them was placed in an  *)
(* ALB of that tier.                                                       *)
(***************************************************************************)
C5_SameSecurityGroupsSameALBWhenAdjacent ==
    status # "panicked" =>
        \A m, n \in Names :
            /\ m < n
            /\ SameALBCase(m, n)
            /\ \A k \in Names :
                 (m < k /\ k < n) =>
                     ~(inspectListeners(elbs[k]) = ALB /\ TiersOf(k) = TiersOf(m))
            => HoldersOf(m) = HoldersOf(n)

C5_Witness ==
    /\ status = "returned"
    /\ \E m, n \in Names :
         /\ m + 1 < n
         /\ SameALBCase(m, n)
         /\ PortsOf(m) \cap PortsOf(n) # {}
         /\ \A k \in Names :
              (m < k /\ k < n) =>
                  ~(inspectListeners(elbs[k]) = ALB /\ TiersOf(k) = TiersOf(m))
         /\ HoldersOf(m) = HoldersOf(n)

\* The source ranges a security group of the lookup allows.
RangeSet(sg) ==
    UNION { { securityGroups[sg][p][r] : r \in 1..Len(securityGroups[sg][p]) }
            : p \in 1..Len(securityGroups[sg]) }

(***************************************************************************)
(* C6: hasSameIngress(sg1, sg2) is true exactly when the two groups allow  *)
(* the same set of source ranges, the set of a group being the ranges of   *)
(* all its permissions, whatever the calls made before; so it is false     *)
(* when one set is a strict subset of the other and true for two ids with  *)
(* equal sets.                                                             *)
(***************************************************************************)
C6_SameIngressIsSetEquality ==
    (sameIngress # NoCall /\ ~sameIngress.panic) =>
        sameIngress.res = (RangeSet(sameIngress.sg1) = RangeSet(sameIngress.sg2))

C6_Witness ==
    /\ sameIngress # NoCall /\ ~sameIngress.panic
    /\ sameIngress.sg1 # sameIngress.sg2
    /\ RangeSet(sameIngress.sg1) # RangeSet(sameIngress.sg2)
    /\ RangeSet(sameIngress.sg1) \subseteq RangeSet(sameIngress.sg2)
    /\ RangeSet(sameIngress.sg1) # {}
    /\ {sameIngress.sg1, sameIngress.sg2} \subseteq DOMAIN ingressesBySg
    /\ ~sameIngress.res

\* The category of a listener, and the categories of a load balancer.
CategoryOf(listener) ==
    CASE listener.Protocol \in {"HTTP", "HTTPS"} -> "HTTP"
      [] listener.Protocol = "TCP" /\ listener.LoadBalancerPort \in {80, 443} -> "HTTP"
      [] listener.Protocol = "TCP" /\ listener.LoadBalancerPort \notin {80, 443} -> "TCP"
      [] OTHER -> "none"

CategoriesOf(lb) ==
    { CategoryOf(lb.ListenerDescriptions[i]) : i \in 1..Len(lb.ListenerDescriptions) }
        \ {"none"}

(***************************************************************************)
(* C7: inspectListeners returns ALB when HTTP is the only category of the  *)
(* listeners, NLB when TCP is the only one and ELB when both are present,  *)
(* the category of a listener being HTTP for the protocols HTTP and HTTPS  *)
(* and for TCP on port 80 or 443, TCP for TCP on another port, and none    *)
(* for another protocol.                                                   *)
(***************************************************************************)
C7_ClassificationByCategory ==
    elbs # <<>> =>
        LET categories == CategoriesOf(elbs[Len(elbs)])
        IN  /\ categories = {"HTTP"} => targetLB = ALB
            /\ categories = {"TCP"} => targetLB = NLB
            /\ categories = {"HTTP", "TCP"} => targetLB = ELB

C7_Witness ==
    /\ elbs # <<>>
    /\ targetLB = ELB
    /\ Len(elbs[1].ListenerDescriptions) = 2
    /\ \A i \in 1..2 : elbs[1].ListenerDescriptions[i].Protocol = "TCP"

\* Two security groups of the lookup that allow the same ranges.
SameRanges(s, g) ==
    /\ s \in DOMAIN securityGroups
    /\ g \in DOMAIN securityGroups
    /\ RangeSet(s) = RangeSet(g)

(***************************************************************************)
(* C8: a step that places a load balancer lb of type T in a tier appends a *)
(* new CLB to the tier's T list exactly when the list was empty or no      *)
(* security group g of lb and key s of the T index had s = g or the same   *)
(* ingress as g with a CLB passing the port rule; otherwise the list keeps *)
(* its length and lb is merged into one of its CLBs, which then has every  *)
(* security group of lb.                                                   *)
(***************************************************************************)
C8_PlacementStep ==
    (elbs' # elbs /\ status' = "running") =>
        LET lb     == elbs'[Len(elbs')]
            type   == inspectListeners(lb)
            i      == tiersBySubnet'[lb.Subnets[1]]
            before == IF i <= Len(tiers) THEN tiers[i].recommendation[ListField(type)]
                      ELSE <<>>
            bySg   == IF i <= Len(tiers) THEN tiers[i].recommendation[BySgField(type)]
                      ELSE EmptyMap
            after  == tiers'[i].recommendation[ListField(type)]
            lbSgs  == { lb.SecurityGroups[j] : j \in 1..Len(lb.SecurityGroups) }
            lbPorts == { lb.ListenerDescriptions[j].LoadBalancerPort
                         : j \in 1..Len(lb.ListenerDescriptions) }
            candidate ==
                \E g \in lbSgs, s \in DOMAIN bySg :
                    /\ s = g \/ SameRanges(s, g)
                    /\ type = ALB \/ before[bySg[s]].ports \cap lbPorts = {}
            created ==
                /\ Len(after) = Len(before) + 1
                /\ \A k \in 1..Len(before) : after[k] = before[k]
                /\ after[Len(after)].elbs = <<lb.LoadBalancerName>>
            merged ==
                /\ Len(after) = Len(before)
                /\ \E k \in 1..Len(before) :
                     /\ after[k].elbs = Append(before[k].elbs, lb.LoadBalancerName)
                     /\ lbSgs \subseteq after[k].securityGroups
                     /\ \A j \in 1..Len(before) : j # k => after[j] = before[j]
        IN  /\ created <=> (before = <<>> \/ ~candidate)
            /\ ~created => merged

\* C8: every step of the engine is such a step.
C8_PlacementDecision == [][C8_PlacementStep]_vars

C8_Witness ==
    \E c, d \in CLBs :
        /\ c[1] = d[1] /\ c[2] = d[2] /\ c[3] # d[3]
        /\ Len(CLB(c).elbs) >= 2
        /\ \E s, g \in CLB(c).securityGroups : s # g /\ SameRanges(s, g)
        /\ \E s \in CLB(c).securityGroups, g \in CLB(d).securityGroups : ~SameRanges(s, g)

(***************************************************************************)
(* C9: two runs of generateRecommendations on the same input, in the same  *)
(* order, with the same security group lookup (which has every security    *)
(* group of the input) have the same outcome.  The engine does not keep    *)
(* this: which CLB takes a load balancer can depend on the order in which  *)
(* Go ranges over the security group index.                                *)
(***************************************************************************)
C9_SameInputSameOutput ==
    (\A n \in Names : SgsOf(n) \subseteq DOMAIN securityGroups) =>
        Cardinality({ o.result : o \in generateRecommendations(elbs, securityGroups) }) = 1

\* The orders in which the elements of q can be processed.
OrdersOf(q) ==
    { [i \in 1..Len(q) |-> q[f[i]]]
      : f \in { g \in [1..Len(q) -> 1..Len(q)] :
                  \A i, j \in 1..Len(q) : g[i] = g[j] => i = j } }

\* Every completed run over every order of the load balancers processed.
RunsInAnyOrder ==
    UNION { generateRecommendations(q, securityGroups) : q \in OrdersOf(elbs) }

NoSubnetEverMoves == \A o \in RunsInAnyOrder : ~o.moved

RECURSIVE NamesIn(_)
NamesIn(lists) ==
    IF lists = <<>> THEN {}
    ELSE { Head(lists).elbs[j] : j \in 1..Len(Head(lists).elbs) } \cup NamesIn(Tail(lists))

\* The groups of load balancer names that share a recommendation.
TierGroups(recs) ==
    { NamesIn(recs[i].albs \o recs[i].nlbs \o recs[i].elbs) : i \in 1..Len(recs) }

RECURSIVE CountsOf(_)
CountsOf(recs) ==
    IF recs = <<>> THEN <<0, 0, 0>>
    ELSE LET rest == CountsOf(Tail(recs))
         IN  <<Len(Head(recs).albs) + rest[1],
               Len(Head(recs).nlbs) + rest[2],
               Len(Head(recs).elbs) + rest[3]>>

(***************************************************************************)
(* C10: for an input in which no order of processing gives a subnet        *)
(* another tier, every order puts the same load balancers together in a    *)
(* tier and yields the same numbers of ALBs, NLBs and ELBs.  The numbers   *)
(* are not kept: the placement is greedy and follows the order.            *)
(***************************************************************************)
C10_OrderIndependentTiersAndCounts ==
    (status = "returned" /\ NoSubnetEverMoves) =>
        \A o \in RunsInAnyOrder :
            ~o.panic => /\ TierGroups(o.result) = TierGroups(result)
                        /\ CountsOf(o.result) = CountsOf(result)

(***************************************************************************)
(* C10, amended: for such an input, every order that runs to the end puts  *)
(* the same load balancers together in a tier; the numbers of ALBs, NLBs   *)
(* and ELBs can differ from one order to another.                          *)
(***************************************************************************)
C10_OrderIndependentTiers ==
    (status = "returned" /\ NoSubnetEverMoves) =>
        \A o \in RunsInAnyOrder :
            ~o.panic => TierGroups(o.result) = TierGroups(result)

C10_Witness ==
    /\ status = "returned"
    /\ NoSubnetEverMoves
    /\ Len(elbs) >= 3
    /\ Len(result) >= 2
    /\ \E m, n \in Names :
         /\ TiersOf(m) = TiersOf(n)
         /\ SubnetsOf(m) # SubnetsOf(n)
    /\ \E o \in RunsInAnyOrder : ~o.panic /\ o.result # result

(***************************************************************************)
(* Vocabulary of the steps: the load balancer a step of the loop has       *)
(* processed, its target type, its tier, and the list and the security     *)
(* group index of that type in that tier before and after the step.        *)
(***************************************************************************)
StepLB == elbs'[Len(elbs')]

StepType == inspectListeners(StepLB)

StepTier == tiersBySubnet'[StepLB.Subnets[1]]

StepSgs == { StepLB.SecurityGroups[j] : j \in 1..Len(StepLB.SecurityGroups) }

ListBefore ==
    IF StepTier <= Len(tiers) THEN tiers[StepTier].recommendation[ListField(StepType)]
    ELSE <<>>

BySgBefore ==
    IF StepTier <= Len(tiers) THEN tiers[StepTier].recommendation[BySgField(StepType)]
    ELSE EmptyMap

ListAfter == tiers'[StepTier].recommendation[ListField(StepType)]

BySgAfter == tiers'[StepTier].recommendation[BySgField(StepType)]

\* A step of the loop on a load balancer that has a target type.
Classified == elbs' # elbs /\ StepType # Panic

\* A step of the loop that has placed its load balancer.
Placed == Classified /\ status' = "running"

\* The listener ports of the load balancer of the step.
StepPorts ==
    { StepLB.ListenerDescriptions[j].LoadBalancerPort
      : j \in 1..Len(StepLB.ListenerDescriptions) }

\* The k-th CLB of the list passes the port rule for the load balancer.
PassesPortRule(k) == StepType = ALB \/ ListBefore[k].ports \cap StepPorts = {}

\* The exact lookup of the security group g gives a CLB that passes the port rule.
ExactMatch(g) == g \in DOMAIN BySgBefore /\ PassesPortRule(BySgBefore[g])

(***************************************************************************)
(* C11: a run on an input in which a load balancer has a security group    *)
(* without entry in the lookup does not return recommendations.  The       *)
(* engine does not keep this: it reads the lookup only when it compares    *)
(* the ingress of two security groups.                                     *)
(***************************************************************************)
C11_MissingIngressIsFatal ==
    (\E n \in Names : ~(SgsOf(n) \subseteq DOMAIN securityGroups)) => status # "returned"

(***************************************************************************)
(* C11, amended: a missing entry is fatal when it has to be compared.  A   *)
(* step on a load balancer that has a target type aborts only when the     *)
(* list of that type in its tier is not empty and a security group of the  *)
(* load balancer or of the index has no entry; and it does abort when the  *)
(* index is not empty and the first security group of the load balancer    *)
(* has no entry and gives no exact match.                                  *)
(***************************************************************************)
C11_MissingIngressStep ==
    Classified =>
        /\ status' = "panicked" =>
               /\ ListBefore # <<>>
               /\ ~((StepSgs \cup DOMAIN BySgBefore) \subseteq DOMAIN securityGroups)
        /\ ( /\ ListBefore # <<>>
             /\ DOMAIN BySgBefore # {}
             /\ StepLB.SecurityGroups # <<>>
             /\ StepLB.SecurityGroups[1] \notin DOMAIN securityGroups
             /\ ~ExactMatch(StepLB.SecurityGroups[1]) ) => status' = "panicked"

\* C11, amended: every step of the engine is such a step.
C11_MissingIngressFatalWhenCompared == [][C11_MissingIngressStep]_vars

C11_Witness ==
    /\ status = "panicked"
    /\ targetLB = ALB
    /\ Len(elbs) >= 2
    /\ ~(SgsOf(Len(elbs)) \subseteq DOMAIN securityGroups)
    /\ \A n \in 1..(Len(elbs) - 1) : SgsOf(n) \subseteq DOMAIN securityGroups

(***************************************************************************)
(* C12: a load balancer without a listener of a known category (no         *)
(* listener, or only protocols other than HTTP, HTTPS and TCP) ends the    *)
(* run: it is the last one processed, the run has aborted, and nothing is  *)
(* returned.                                                               *)
(***************************************************************************)
C12_UnclassifiableIsFatal ==
    \A n \in Names :
        CategoriesOf(elbs[n]) = {} =>
            /\ n = Len(elbs)
            /\ status = "panicked"
            /\ targetLB = Panic
            /\ result = <<>>

C12_Witness ==
    /\ status = "panicked"
    /\ Len(elbs) >= 3
    /\ elbs[Len(elbs)].ListenerDescriptions # <<>>
    /\ CategoriesOf(elbs[Len(elbs)]) = {}
    /\ Cardinality(CLBs) >= 2

\* The load balancers under the recommendation r.
NamesUnder(r) == NamesIn(r.albs \o r.nlbs \o r.elbs)

(***************************************************************************)
(* C13: a step never removes a tier: the list of tiers keeps its tiers,    *)
(* each with its subnets and its load balancers, and grows by at most one  *)
(* tier, at its end; and the result returned has one recommendation for    *)
(* each tier of the list, in the order of the list, with the tier's        *)
(* consolidated load balancers and subnets, whether or not a subnet is     *)
(* still associated with the tier.                                         *)
(***************************************************************************)
C13_TiersStep ==
    /\ Len(tiers') >= Len(tiers)
    /\ Len(tiers') <= Len(tiers) + 1
    /\ \A i \in 1..Len(tiers) :
          /\ tiers[i].subnets \subseteq tiers'[i].subnets
          /\ NamesUnder(tiers[i].recommendation) \subseteq NamesUnder(tiers'[i].recommendation)
    /\ Len(tiers') > Len(tiers) =>
          NamesUnder(tiers'[Len(tiers')].recommendation) \subseteq {Len(elbs')}
    /\ status' = "returned" =>
          /\ Len(result') = Len(tiers)
          /\ \A i \in 1..Len(tiers) :
                /\ [result'[i] EXCEPT !.subnets = <<>>] = tiers[i].recommendation
                /\ { result'[i].subnets[j] : j \in 1..Len(result'[i].subnets) }
                       = tiers[i].subnets

\* C13: every step of the engine is such a step.
C13_TiersKeptInCreationOrder == [][C13_TiersStep]_vars

C13_Witness ==
    /\ status = "returned"
    /\ Len(result) >= 3
    /\ \E i \in 1..Len(tiers) :
         /\ \A s \in tiers[i].subnets : tiersBySubnet[s] # i
         /\ NamesUnder(result[i]) # {}
         /\ result[i].subnets # <<>>

\* The consolidated load balancers of a type, over all tiers.
CLBsOfType(type) == { c \in CLBs : c[2] = type }

(***************************************************************************)
(* C14: printRecommendations counts as original the number of load         *)
(* balancers of the input and as albs, nlbs and elbs the numbers of        *)
(* consolidated load balancers of each type over all tiers, and its saving *)
(* is (original - (0.9 * (albs + nlbs) + elbs)) / original * 100: in       *)
(* integers, 10 * original * saving = 100 * (10 * original - 9 * (albs +   *)
(* nlbs) - 10 * elbs).                                                     *)
(***************************************************************************)
C14_SavingsEstimate ==
    status = "printed" =>
        LET original == Len(elbs)
            albs     == Cardinality(CLBsOfType(ALB))
            nlbs     == Cardinality(CLBsOfType(NLB))
        IN  /\ printed.currentElbCount = original
            /\ printed.albCount = albs
            /\ printed.nlbCount = nlbs
            /\ printed.elbCount = Cardinality(CLBsOfType(ELB))
            /\ original > 0 => printed.saving.den # 0
            /\ 10 * original * printed.saving.num
                   = 100 * (10 * original - 9 * (albs + nlbs) - 10 * printed.elbCount)
                         * printed.saving.den

C14_Witness ==
    /\ status = "printed"
    /\ Len(elbs) = 2
    /\ Cardinality(CLBsOfType(ALB)) = 1
    /\ Cardinality(CLBs) = 1
    /\ printed.saving.den # 0
    /\ printed.saving.num = 55 * printed.saving.den

\* The step has merged its load balancer into the k-th CLB of the list.
MergedInto(k) ==
    /\ Placed
    /\ Len(ListAfter) = Len(ListBefore)
    /\ k \in 1..Len(ListBefore)
    /\ ListAfter[k].elbs = Append(ListBefore[k].elbs, StepLB.LoadBalancerName)

(***************************************************************************)
(* C15: a step that places a load balancer in a list without making the    *)
(* list longer has merged it into a CLB of the list that, before the step, *)
(* had a security group that is one of the load balancer's or has the same *)
(* ingress as one of them, and that passes the port rule: the type is ALB  *)
(* or the CLB had none of the load balancer's ports.                       *)
(***************************************************************************)
C15_MergeStep ==
    (Placed /\ Len(ListAfter) = Len(ListBefore)) =>
        /\ \E k \in 1..Len(ListBefore) : MergedInto(k)
        /\ \A k \in 1..Len(ListBefore) :
              MergedInto(k) =>
                  /\ \E g \in StepSgs, s \in ListBefore[k].securityGroups :
                        s = g \/ SameRanges(s, g)
                  /\ PassesPortRule(k)

\* C15: every step of the engine is such a step.
C15_MergeTargetCorrect == [][C15_MergeStep]_vars

C15_Witness ==
    /\ status = "running"
    /\ \E c, d \in CLBs :
         /\ c[1] = d[1] /\ c[2] = NLB /\ d[2] = NLB /\ c[3] # d[3]
         /\ Len(CLB(c).elbs) = 2
         /\ Len(CLB(d).elbs) = 1
         /\ CLB(c).elbs[2] = Len(elbs)
         /\ SgsOf(CLB(c).elbs[2]) \cap SgsOf(CLB(c).elbs[1]) = {}
         /\ \E s \in CLB(d).securityGroups, g \in SgsOf(Len(elbs)) : SameRanges(s, g)
         /\ CLB(d).ports \cap PortsOf(Len(elbs)) = {}

\* The step has put its load balancer in the k-th CLB of the list, old or new.
PlacedIn(k) ==
    /\ Placed
    /\ k \in 1..Len(ListAfter)
    /\ \E j \in 1..Len(ListAfter[k].elbs) : ListAfter[k].elbs[j] = StepLB.LoadBalancerName

(***************************************************************************)
(* C16: after a step that places a load balancer in a CLB of a list, the   *)
(* security group index of that list maps every security group of the load *)
(* balancer to that CLB, whatever it mapped the group to before, and maps  *)
(* every other security group as before.                                   *)
(***************************************************************************)
C16_AssociationStep ==
    Placed =>
        /\ \E k \in 1..Len(ListAfter) : PlacedIn(k)
        /\ DOMAIN BySgAfter = (DOMAIN BySgBefore) \cup StepSgs
        /\ \A k \in 1..Len(ListAfter) :
              PlacedIn(k) => \A g \in StepSgs : BySgAfter[g] = k
        /\ \A s \in (DOMAIN BySgBefore) \ StepSgs : BySgAfter[s] = BySgBefore[s]

\* C16: every step of the engine is such a step.
C16_LastWriterWins == [][C16_AssociationStep]_vars

C16_Witness ==
    /\ status = "running"
    /\ \E c, d \in CLBs :
         /\ c[1] = d[1] /\ c[2] = d[2] /\ c[3] # d[3]
         /\ \E j \in 1..Len(CLB(c).elbs) : CLB(c).elbs[j] = Len(elbs)
         /\ \E g \in SgsOf(Len(elbs)) :
              /\ g \in CLB(d).securityGroups
              /\ tiers[c[1]].recommendation[BySgField(c[2])][g] = c[3]
              /\ \E n \in 1..(Len(elbs) - 1) :
                   /\ g \in SgsOf(n)
                   /\ \E j \in 1..Len(CLB(d).elbs) : CLB(d).elbs[j] = n

\* The CLBs an index key with the same ingress as g leads to, that pass the port rule.
EquivalentTargets(g) ==
    { BySgBefore[s] : s \in { x \in DOMAIN BySgBefore :
                                SameRanges(x, g) /\ PassesPortRule(BySgBefore[x]) } }

\* The positions of the load balancer's security groups that give a CLB.
Candidates ==
    { i \in 1..Len(StepLB.SecurityGroups) :
        \/ ExactMatch(StepLB.SecurityGroups[i])
        \/ EquivalentTargets(StepLB.SecurityGroups[i]) # {} }

(***************************************************************************)
(* C17: a step that places a load balancer in a list that is not empty     *)
(* takes the first of its security groups, in their listed order, that     *)
(* gives a CLB passing the port rule, by the exact lookup if that gives    *)
(* one and by a key with the same ingress otherwise; with no such security *)
(* group it appends a new CLB.  So a key with the same ingress as an       *)
(* earlier security group wins over an exact match of a later one.         *)
(***************************************************************************)
C17_OrderingStep ==
    (Placed /\ ListBefore # <<>>) =>
        IF Candidates = {} THEN Len(ListAfter) = Len(ListBefore) + 1
        ELSE LET i == CHOOSE c \in Candidates : \A d \in Candidates : c <= d
                 g == StepLB.SecurityGroups[i]
             IN  IF ExactMatch(g) THEN MergedInto(BySgBefore[g])
                 ELSE \E k \in EquivalentTargets(g) : MergedInto(k)

\* C17: every step of the engine is such a step.
C17_CandidateOrdering == [][C17_OrderingStep]_vars

C17_Witness ==
    /\ status = "running"
    /\ Len(elbs) >= 3
    /\ Len(elbs[Len(elbs)].SecurityGroups) = 2
    /\ \E c, d \in CLBs :
         LET g1 == elbs[Len(elbs)].SecurityGroups[1]
             g2 == elbs[Len(elbs)].SecurityGroups[2]
         IN  /\ c[1] = d[1] /\ c[2] = d[2] /\ c[3] # d[3]
             /\ Len(CLB(c).elbs) = 2
             /\ CLB(c).elbs[2] = Len(elbs)
             /\ SgsOf(CLB(c).elbs[1]) \cap {g1, g2} = {}
             /\ \E s \in SgsOf(CLB(c).elbs[1]) : SameRanges(s, g1)
             /\ \E j \in 1..Len(CLB(d).elbs) : g2 \in SgsOf(CLB(d).elbs[j])

\* The CLB replaces a load balancer that has no security group.
HasNameWithoutSecurityGroups(c) ==
    \E j \in 1..Len(CLB(c).elbs) : SgsOf(CLB(c).elbs[j]) = {}

(***************************************************************************)
(* C18: a CLB that replaces a load balancer without security groups        *)
(* replaces that one only: such a load balancer is never merged into a CLB *)
(* and its CLB never takes another load balancer, so k of them in one list *)
(* are k CLBs of one load balancer each.                                   *)
(***************************************************************************)
C18_NoSecurityGroupsNoMerge ==
    \A c \in CLBs :
        HasNameWithoutSecurityGroups(c) =>
            /\ Len(CLB(c).elbs) = 1
            /\ CLB(c).securityGroups = {}
            /\ \A s \in DOMAIN tiers[c[1]].recommendation[BySgField(c[2])] :
                  tiers[c[1]].recommendation[BySgField(c[2])][s] # c[3]

C18_Witness ==
    /\ status = "returned"
    /\ Len(elbs) >= 4
    /\ \E c, d, e \in CLBs :
         /\ c[2] = NLB
         /\ c[1] = d[1] /\ c[2] = d[2] /\ c[3] < d[3]
         /\ e[1] = c[1] /\ e[2] = c[2] /\ d[3] < e[3]
         /\ HasNameWithoutSecurityGroups(c)
         /\ HasNameWithoutSecurityGroups(d)
         /\ CLB(e).securityGroups # {}
         /\ CLB(e).ports \cap CLB(c).ports = {}

\* The sequence a is the beginning of the sequence b.
IsPrefix(a, b) == Len(a) <= Len(b) /\ \A j \in 1..Len(a) : b[j] = a[j]

\* The CLB after a step continues the CLB before it.
Continues(before, after) ==
    /\ IsPrefix(before.elbs, after.elbs)
    /\ before.ports \subseteq after.ports
    /\ before.securityGroups \subseteq after.securityGroups

(***************************************************************************)
(* C19: every step keeps every CLB of every list of every tier at its      *)
(* place in the list, with the names it had at the places they had, its    *)
(* ports and its security groups; a step only appends names to CLBs, adds  *)
(* ports and security groups to them, and appends CLBs to lists.           *)
(***************************************************************************)
C19_GreedyStep ==
    \A i \in 1..Len(tiers) : \A type \in LbTypes :
        LET before == tiers[i].recommendation[ListField(type)]
            after  == tiers'[i].recommendation[ListField(type)]
        IN  /\ Len(before) <= Len(after)
            /\ \A k \in 1..Len(before) : Continues(before[k], after[k])

\* C19: every step of the engine is such a step.
C19_DecisionsNeverRevisited == [][C19_GreedyStep]_vars

C19_Witness ==
    /\ status = "returned"
    /\ Len(elbs) >= 4
    /\ \E c, d \in CLBs :
         /\ c[1] = d[1] /\ c[2] = d[2] /\ c[3] < d[3]
         /\ Len(CLB(c).elbs) >= 2
         /\ CLB(c).elbs[1] < CLB(d).elbs[1]
         /\ CLB(d).elbs[1] < CLB(c).elbs[Len(CLB(c).elbs)]
         /\ Len(CLB(d).elbs) >= 2

(***************************************************************************)
(* C20: in every state, the ports of a CLB are the listener ports of the   *)
(* load balancers it replaces, its security groups are their security      *)
(* groups, and its names are theirs in the order they were processed, each *)
(* once.                                                                   *)
(***************************************************************************)
C20_CLBIsUnionOfReplaced ==
    \A c \in CLBs :
        LET names == CLB(c).elbs
        IN  /\ names # <<>>
            /\ \A j \in 1..Len(names) : names[j] \in Names
            /\ \A j, k \in 1..Len(names) : j < k => names[j] < names[k]
            /\ CLB(c).ports = UNION { PortsOf(names[j]) : j \in 1..Len(names) }
            /\ CLB(c).securityGroups = UNION { SgsOf(names[j]) : j \in 1..Len(names) }

C20_Witness ==
    /\ status = "returned"
    /\ \E c \in CLBs :
         /\ Len(CLB(c).elbs) >= 2
         /\ Cardinality(CLB(c).ports) >= 2
         /\ Cardinality(CLB(c).securityGroups) >= 2
         /\ \E j, k \in 1..Len(CLB(c).elbs) :
              /\ SgsOf(CLB(c).elbs[j]) # SgsOf(CLB(c).elbs[k])
              /\ PortsOf(CLB(c).elbs[j]) # PortsOf(CLB(c).elbs[k])

\* The subnets of the load balancer of the step.
StepSubnets == { StepLB.Subnets[j] : j \in 1..Len(StepLB.Subnets) }

\* The tier the subnet index had for the first subnet of the load balancer of
\* the step, a fresh tier at the end of the list if it had none.
FirstSubnetTier ==
    IF StepLB.Subnets[1] \in DOMAIN tiersBySubnet
    THEN tiersBySubnet[StepLB.Subnets[1]]
    ELSE Len(tiers) + 1

(***************************************************************************)
(* C21: a step on a load balancer takes the tier the subnet index had for  *)
(* its first subnet, a fresh tier with an empty recommendation being       *)
(* appended exactly when it had none; after the step the subnet index maps *)
(* every subnet of the load balancer to that tier, whatever it mapped it   *)
(* to before, the tier has every one of them in its subnets, and a load    *)
(* balancer that is placed is under the recommendation of that tier.       *)
(***************************************************************************)
C21_AssignTierStep ==
    elbs' # elbs =>
        /\ Len(tiers') = (IF StepLB.Subnets[1] \in DOMAIN tiersBySubnet
                          THEN Len(tiers) ELSE Len(tiers) + 1)
        /\ \A s \in StepSubnets :
              /\ s \in DOMAIN tiersBySubnet'
              /\ tiersBySubnet'[s] = FirstSubnetTier
              /\ s \in tiers'[FirstSubnetTier].subnets
        /\ FirstSubnetTier > Len(tiers) =>
              NamesUnder(tiers'[FirstSubnetTier].recommendation)
                  \subseteq {StepLB.LoadBalancerName}
        /\ status' = "running" =>
              StepLB.LoadBalancerName \in NamesUnder(tiers'[FirstSubnetTier].recommendation)

\* C21: every step of the engine is such a step.
C21_TierResolution == [][C21_AssignTierStep]_vars

C21_Witness ==
    /\ status = "running"
    /\ Len(elbs) >= 3
    /\ Len(elbs[Len(elbs)].Subnets) = 2
    /\ \E n \in 1..(Len(elbs) - 1) :
         /\ elbs[Len(elbs)].Subnets[2] \in SubnetsOf(n)
         /\ elbs[Len(elbs)].Subnets[1] \notin SubnetsOf(n)
         /\ TiersOf(n) \cap TiersOf(Len(elbs)) = {}
         /\ tiersBySubnet[elbs[Len(elbs)].Subnets[2]] \in TiersOf(Len(elbs))
    /\ \E m \in 1..(Len(elbs) - 1) : TiersOf(m) = TiersOf(Len(elbs))

\* The load balancers routed into the tier i: those placed under its
\* recommendation, and the one on which the run has aborted if i was its tier.
RoutedInto(i) ==
    { n \in Names : i \in TiersOf(n) }
        \cup (IF /\ status = "panicked"
                 /\ tiersBySubnet[elbs[Len(elbs)].Subnets[1]] = i
              THEN {Len(elbs)} ELSE {})

\* The subnets of a tier are those of the load balancers routed into it.
SubnetsAreThoseRouted ==
    \A i \in 1..Len(tiers) :
        tiers[i].subnets = UNION { SubnetsOf(n) : n \in RoutedInto(i) }

\* A step takes no subnet out of a tier.
SubnetsKept == \A i \in 1..Len(tiers) : tiers[i].subnets \subseteq tiers'[i].subnets

(***************************************************************************)
(* C22: no step takes a subnet out of the subnets of a tier, and in every  *)
(* state the subnets of a tier are the subnets of the load balancers       *)
(* routed into it, whether or not the subnet index still maps them to it.  *)
(***************************************************************************)
C22_TierSubnetsGrowAsUnion == []SubnetsAreThoseRouted /\ [][SubnetsKept]_vars

C22_Witness ==
    /\ status = "returned"
    /\ Len(elbs) >= 3
    /\ \E i \in 1..Len(tiers) :
         /\ Cardinality(tiers[i].subnets) >= 2
         /\ Cardinality(RoutedInto(i)) >= 2
         /\ \E s \in tiers[i].subnets : tiersBySubnet[s] # i

(***************************************************************************)
(* C23: the subnets of two tiers are disjoint, so the recommendations      *)
(* returned list no subnet twice.  The engine does not keep this: a subnet *)
(* that the subnet index gives to another tier stays in the subnets of the *)
(* tier that had it.                                                       *)
(***************************************************************************)
C23_TierSubnetsDisjoint ==
    /\ \A i, j \in 1..Len(tiers) :
          i # j => tiers[i].subnets \cap tiers[j].subnets = {}
    /\ \A i, j \in 1..Len(result) :
          i # j => \A k \in 1..Len(result[i].subnets), l \in 1..Len(result[j].subnets) :
                      result[i].subnets[k] # result[j].subnets[l]

\* The security group index of a type in a tier.
BySg(i, type) == tiers[i].recommendation[BySgField(type)]

(***************************************************************************)
(* C24: in every state, each key of the security group index of a type in  *)
(* a tier is mapped to a CLB of the list of that type in that tier, and    *)
(* that CLB has the key among its security groups.                         *)
(***************************************************************************)
C24_IndexConsistent ==
    \A i \in 1..Len(tiers) : \A type \in LbTypes :
        \A g \in DOMAIN BySg(i, type) :
            /\ BySg(i, type)[g] \in 1..Len(tiers[i].recommendation[ListField(type)])
            /\ <<i, type, BySg(i, type)[g]>> \in CLBs
            /\ g \in CLB(<<i, type, BySg(i, type)[g]>>).securityGroups

C24_Witness ==
    /\ status = "returned"
    /\ \E c, d \in CLBs :
         /\ c[1] = d[1] /\ c[2] = d[2] /\ c[3] # d[3]
         /\ \E g, h \in DOMAIN BySg(c[1], c[2]) :
              /\ BySg(c[1], c[2])[g] = c[3]
              /\ BySg(c[1], c[2])[h] = d[3]
         /\ \E g \in CLB(d).securityGroups : BySg(c[1], c[2])[g] = c[3]

\* The target type the categories of the listeners of a load balancer give.
TypeByCategories(lb) ==
    CASE CategoriesOf(lb) = {"HTTP"} -> ALB
      [] CategoriesOf(lb) = {"TCP"} -> NLB
      [] CategoriesOf(lb) = {"HTTP", "TCP"} -> ELB
      [] OTHER -> Panic

\* Every CLB that names a load balancer is in a list of its target type.
HeldByType ==
    \A n \in Names : \A c \in HoldersOf(elbs[n].LoadBalancerName) : c[2] = TypeByCategories(elbs[n])

\* The CLBs of the tiers ts that name n: tier, type, index.
HoldersIn(ts, n) ==
    { c \in UNION { { <<i, type, k>> : k \in 1..Len(ts[i].recommendation[ListField(type)]) }
                    : i \in 1..Len(ts), type \in LbTypes } :
        \E j \in 1..Len(ts[c[1]].recommendation[ListField(c[2])][c[3]].elbs) :
            ts[c[1]].recommendation[ListField(c[2])][c[3]].elbs[j] = n }

\* A step that places a load balancer puts it in one CLB of the list of its
\* type in the tier of its first subnet, and leaves the others where they are.
HeldByTierStep ==
    /\ Placed =>
          \E k \in 1..Len(ListAfter) :
              /\ StepTier = FirstSubnetTier
              /\ HoldersIn(tiers', StepLB.LoadBalancerName)
                    = {<<FirstSubnetTier, TypeByCategories(StepLB), k>>}
    /\ \A n \in Names : HoldersIn(tiers', elbs[n].LoadBalancerName) = HoldersOf(elbs[n].LoadBalancerName)

(***************************************************************************)
(* C25: a load balancer is placed in a CLB of the list of its target type  *)
(* under the recommendation of the tier it was given, and stays there; a   *)
(* CLB is in one list of one recommendation, so the load balancers it      *)
(* names have one target type and were given one tier, whatever their      *)
(* security groups.                                                        *)
(***************************************************************************)
C25_PlacementRespectsTierAndType == []HeldByType /\ [][HeldByTierStep]_vars

C25_Witness ==
    /\ status = "returned"
    /\ \E c, d, e, f \in CLBs :
         /\ c[1] = d[1] /\ d[1] = e[1] /\ f[1] # c[1]
         /\ c[2] = ALB /\ d[2] = NLB /\ e[2] = ELB
         /\ CLB(c).securityGroups = CLB(d).securityGroups
         /\ CLB(d).securityGroups = CLB(e).securityGroups
         /\ CLB(e).securityGroups = CLB(f).securityGroups
         /\ CLB(f).securityGroups # {}

\* The recommendation of a tier before the step, an empty one for a fresh tier.
RecommendationBefore(i) ==
    IF i <= Len(tiers) THEN tiers[i].recommendation ELSE newRecommendation

\* What a step on a load balancer with a target type leaves alone.
FrameOfStep ==
    /\ securityGroups' = securityGroups
    /\ DOMAIN tiersBySubnet' \ StepSubnets = DOMAIN tiersBySubnet \ StepSubnets
    /\ \A s \in DOMAIN tiersBySubnet \ StepSubnets : tiersBySubnet'[s] = tiersBySubnet[s]
    /\ Len(tiers') = IF StepTier <= Len(tiers) THEN Len(tiers) ELSE Len(tiers) + 1
    /\ StepTier \in 1..Len(tiers')
    /\ \A i \in 1..Len(tiers) : i # StepTier => tiers'[i] = tiers[i]
    /\ \A type \in LbTypes \ {StepType} :
         /\ tiers'[StepTier].recommendation[ListField(type)]
              = RecommendationBefore(StepTier)[ListField(type)]
         /\ tiers'[StepTier].recommendation[BySgField(type)]
              = RecommendationBefore(StepTier)[BySgField(type)]

(***************************************************************************)
(* C26: a step on a load balancer of a target type changes, besides the    *)
(* ingress cache, only the subnet index at the subnets of the load         *)
(* balancer and, in the tier it is routed to, the subnets and the list and *)
(* security group index of its type; the other tiers, and the lists and    *)
(* indexes of the two other types in its tier, are as before.              *)
(***************************************************************************)
C26_PlacementFrame == [][Classified => FrameOfStep]_vars

C26_Witness ==
    /\ status = "returned"
    /\ Len(elbs) >= 3
    /\ \E c, d, e \in CLBs :
         /\ c # d /\ c[1] = d[1] /\ c[2] # d[2] /\ e[1] # c[1]
         /\ CLB(c).elbs[Len(CLB(c).elbs)] = elbs[Len(elbs)].LoadBalancerName
         /\ DOMAIN BySg(d[1], d[2]) # {}
         /\ DOMAIN BySg(e[1], e[2]) # {}

(***************************************************************************)
(* C27: every CLB replaces at least one load balancer; when a run on a     *)
(* non-empty input has returned and its totals are printed, there is at    *)
(* least one CLB and no more CLBs than load balancers, 9 * (albs + nlbs) + *)
(* 10 * elbs <= 10 * original, and the saving is a number that is at least *)
(* 0 and less than 100.                                                    *)
(***************************************************************************)
C27_SavingsBounded ==
    /\ \A c \in CLBs : Len(CLB(c).elbs) >= 1
    /\ (status = "printed" /\ Len(elbs) > 0) =>
          LET lbs == printed.albCount + printed.nlbCount + printed.elbCount
          IN  /\ lbs = Cardinality(CLBs)
              /\ lbs >= 1
              /\ lbs <= printed.currentElbCount
              /\ printed.currentElbCount = Len(elbs)
              /\ 9 * (printed.albCount + printed.nlbCount) + 10 * printed.elbCount
                    <= 10 * printed.currentElbCount
              /\ printed.saving.den # 0
              /\ printed.saving.num * printed.saving.den >= 0
              /\ printed.saving.num * printed.saving.den
                    < 100 * printed.saving.den * printed.saving.den

C27_Witness ==
    /\ status = "printed"
    /\ Len(elbs) >= 2
    /\ printed.elbCount = Len(elbs)
    /\ printed.saving.den # 0
    /\ printed.saving.num = 0

\* Every entry of the ingress cache is the set of ranges of its group in the
\* lookup.
CacheIsFlattened ==
    \A sg \in DOMAIN ingressesBySg :
        /\ sg \in DOMAIN securityGroups
        /\ ingressesBySg[sg] = RangeSet(sg)

\* The last call of hasSameIngress has returned what the call returns on an
\* empty cache.
SameAsOnEmptyCache ==
    sameIngress # NoCall =>
        LET cold == hasSameIngress(newTiers(securityGroups), sameIngress.sg1,
                                   sameIngress.sg2)
        IN  /\ sameIngress.panic = cold.panic
            /\ sameIngress.res = cold.res
            /\ \A sg \in {sameIngress.sg1, sameIngress.sg2} \cap DOMAIN ingressesBySg :
                 LET one == findOrGetIngress(newTiers(securityGroups), sg)
                 IN  ~one.panic /\ one.res = ingressesBySg[sg]

\* A step leaves the lookup and the entries of the ingress cache as they are.
CacheEntriesKept ==
    /\ securityGroups' = securityGroups
    /\ \A sg \in DOMAIN ingressesBySg :
         sg \in DOMAIN ingressesBySg' /\ ingressesBySg'[sg] = ingressesBySg[sg]

(***************************************************************************)
(* C28: in every state each entry of the ingress cache is the set of the   *)
(* source ranges of all the permissions of its group in the lookup, no     *)
(* step changes the lookup or changes or removes an entry, and a call of   *)
(* hasSameIngress, and findOrGetIngress for each of its ids, returns what  *)
(* it returns on an empty cache, whatever was queried before.              *)
(***************************************************************************)
C28_IngressMemoizationTransparent ==
    [](CacheIsFlattened /\ SameAsOnEmptyCache) /\ [][CacheEntriesKept]_vars

C28_Witness ==
    /\ sameIngress # NoCall /\ ~sameIngress.panic
    /\ sameIngress.sg1 = "sg-1" /\ sameIngress.sg2 = "sg-1"
    /\ DOMAIN ingressesBySg = {"sg-1", "sg-2"}
    /\ Len(securityGroups["sg-1"]) = 2
    /\ RangeSet("sg-1") # {}
    /\ RangeSet("sg-2") # RangeSet("sg-1")

====
